---- MODULE Spec2Model ----
(***************************************************************************)
(* Model of the proxy pool manager (ProxyUnit v1.0.7, src/src/proxy.unit.ts *)
(* lines 56-539) on top of the multi-source orchestrator (SockerUnit,      *)
(* src/unnamed/part_004 lines 54-229).                                     *)
(*                                                                         *)
(* The runtime is single-threaded JavaScript: a step of the model is one   *)
(* run-to-completion section between two suspension points.  get() has no  *)
(* await and runs to completion inside the call; exclusive() suspends once *)
(* on `await this.get()` (after the item has been selected, before it is   *)
(* marked); init() and the background refill suspend on each source's      *)
(* get(count).                                                             *)
(***************************************************************************)
EXTENDS Integers, Sequences, FiniteSets, Bags, TLC

\* ---------------------------------------------------------------- bounds
\* configured poolSize (ProxyUnit.create, default 20)
PoolSize == 3
\* number of sources handed to ProxyUnit.create
NSources == 2
\* public calls that can be suspended at the same time
MaxInflight == 2
\* proxy ids the sources can mint in a run
MaxIds == 5
\* public calls made in a run
MaxOps == 3
\* socker.remove(id) dispatches that can be outstanding at the same time
MaxRemovals == 1
\* milliseconds of Date.now() a run spans
MaxNow == 2
\* characters of a proxy string in an API response
MaxStrLen == 4
\* proxy strings in an API response
MaxBatch == 2

\* the default rotationThreshold 0.3 of ProxyUnit.create, as the fraction 3/10
RotationNum == 3
RotationDen == 10

SourceIds == 1..NSources
VARIABLES
  rotationThreshold, \* config.rotationThreshold, in units of 1/RotationDen
  sources,       \* config.sources: the list handed to ProxyUnit.create
  proxies,       \* poolState 'proxies': sequence of ProxyItem
  size,          \* poolState 'size'
  lastRefresh,   \* poolState 'lastRefresh': 0 is null, n is the n-th stamp
  initialized,   \* poolState 'initialized'
  replenishing,  \* poolState 'replenishing'
  inflight,      \* bag of the suspended public calls (init, exclusive)
  refills,       \* bag of the outstanding background refills (replenishPool chains)
  removals,      \* bag of the outstanding socker.remove(id) dispatches of delete()
  nextId,        \* next id a source mints
  released,      \* per source: number of remove(id) calls received
  emitted,       \* events emitted so far, per type
  ret,           \* the last call that returned: its result and the connection passed to it
  owned,         \* ids returned by exclusive() and not failed/deleted since
  nops,          \* public calls made so far
  isActive,      \* per source: ProxyMeshSource.isActive
  now,           \* Date.now(), in milliseconds since the start of the run
  fetched,       \* the last get(count) called on a source directly (the seq-th) and its result
  response       \* what the vendor API answers to OculusSource.callApi

poolVars == <<proxies, size, lastRefresh, initialized, replenishing>>
taskVars == <<inflight, refills>>
srcVars == <<nextId, released>>
obsVars == <<emitted, ret, owned, nops>>
meshVars == <<isActive, now, fetched, response>>
vars == <<rotationThreshold, sources, poolVars, taskVars, removals, srcVars, obsVars, meshVars>>

\* the events of ProxyUnit's own bus (ProxyEvent); source.failed is emitted on
\* SockerUnit's bus and is kept in the log of the replenish call that emits it
EventTypes == {"pool.initialized", "pool.init.failed", "pool.replenished",
               "pool.replenish.failed", "proxy.remove.failed"}

Min(a, b) == IF a < b THEN a ELSE b

One(t) == SetToBag({t})

\* ------------------------------------------------------------ data model
\* the thresholds a unit can be created with: the default 0.3 and 1.0
Thresholds == {RotationNum, RotationDen}

\* a source that calls a vendor API (OculusSource; the mock sources of the
\* tests), with or without the optional IProxySource.remove
ApiSources == [remove : BOOLEAN, kind : {"api"}]

\* a ProxyMeshSource: one static endpoint; it implements remove
MeshSources == [remove : {TRUE}, kind : {"proxymesh"}]

\* the source lists a unit can be created with: up to NSources API sources
SourceLists == UNION {[1..n -> ApiSources] : n \in 0..NSources}

\* the source lists made of ProxyMeshSources, one or more
MeshLists == UNION {[1..n -> MeshSources] : n \in 1..NSources}

IsMesh(s) == s <= Len(sources) /\ sources[s].kind = "proxymesh"

\* IProxySource.remove is optional
SupportsRemove(s) == s <= Len(sources) /\ sources[s].remove

NoConn == [id |-> -1]
\* the result of a source's get(count): not settled yet, or settled with a
\* rejection or a batch
Pending == [st |-> "pending", ok |-> FALSE, items |-> <<>>]
NoRep == [count |-> 0, idx |-> 0, log |-> <<>>, got |-> Pending]
\* no request was made to the vendor API
NoResponse == [kind |-> "none", list |-> <<>>]
NoFetch == [seq |-> 0, src |-> 0, count |-> 0, ok |-> FALSE, items |-> <<>>]
NoRet == [op |-> "none", err |-> "none", conn |-> NoConn, arg |-> NoConn, val |-> "none"]

\* a batch of k fresh items of source s
Batch(nid, k, s) == [i \in 1..k |-> [id |-> nid + i - 1, used |-> FALSE, src |-> s]]

\* what one call source.get(count) can settle with: a rejection, an empty
\* batch, or 1..count fresh items
Outcomes(count, nid, s) ==
  {[ok |-> FALSE, items |-> <<>>], [ok |-> TRUE, items |-> <<>>]}
    \cup {[ok |-> TRUE, items |-> Batch(nid, k, s)] :
            k \in 1..Min(count, MaxIds - nid + 1)}

\* the id ProxyMeshSource s builds at millisecond t from its host and
\* Date.now(); the sources of a list have different hosts, and no API source
\* builds such an id
MeshId(s, t) == MaxIds + (s - 1) * MaxNow + t

\* a ProxyMeshSource.get that ignores the isActive flag
meshGetAlwaysActive(s, count) ==
  [st |-> "settled", ok |-> TRUE,
   items |-> <<[id |-> MeshId(s, now), used |-> FALSE, src |-> s]>>]

\* a ProxyMeshSource.get that returns the endpoint twice
meshGetTwice(s, count) ==
  IF ~isActive[s] THEN [st |-> "settled", ok |-> FALSE, items |-> <<>>]
  ELSE [st |-> "settled", ok |-> TRUE,
        items |-> <<[id |-> MeshId(s, now), used |-> FALSE, src |-> s],
                    [id |-> MeshId(s, now), used |-> FALSE, src |-> s]>>]

\* ProxyMeshSource.get(count): the body has no await, so it runs inside the
\* call; it throws when inactive and otherwise returns one item, whatever count
meshGet(s, count) ==
  IF ~isActive[s] THEN [st |-> "settled", ok |-> FALSE, items |-> <<>>]
  ELSE [st |-> "settled", ok |-> TRUE,
        items |-> <<[id |-> MeshId(s, now), used |-> FALSE, src |-> s]>>]

\* what calling get(count) on source s leaves behind: a ProxyMeshSource has
\* settled inside the call, an API source is pending on its request
sourceGet(s, count) == IF IsMesh(s) THEN meshGet(s, count) ELSE Pending

\* the items of a batch that took their id from the counter of the API sources
Minted(items) == LET fromApi(p) == ~IsMesh(p.src) IN Len(SelectSeq(items, fromApi))

Emit(e, type) == [e EXCEPT ![type] = @ + 1]

\* -------------------------------------------------- ProxyUnit pure helpers
Available(ps) == LET unusedItem(p) == ~p.used IN SelectSeq(ps, unusedItem)

\* a getFromPool that forgets the filter on `used`
getFromPoolAnyItem(ps) == IF Len(ps) = 0 THEN NoConn ELSE ps[1]

getFromPool(ps) ==
  LET availableProxies == Available(ps)
  IN IF Len(availableProxies) = 0 THEN NoConn ELSE availableProxies[1]

formatProxyConnection(p) == [id |-> p.id]

\* a markProxyAsUsed that flips the flag of the item
markProxyAsUsedFlips(ps, proxyId) ==
  [i \in 1..Len(ps) |-> IF ps[i].id = proxyId THEN [ps[i] EXCEPT !.used = ~ps[i].used] ELSE ps[i]]

markProxyAsUsed(ps, proxyId) ==
  [i \in 1..Len(ps) |-> IF ps[i].id = proxyId THEN [ps[i] EXCEPT !.used = TRUE] ELSE ps[i]]

\* a removeFromPool that spares the items in use
removeFromPoolUnusedOnly(ps, proxyId) ==
  LET keep(p) == p.id # proxyId \/ p.used IN SelectSeq(ps, keep)

removeFromPool(ps, proxyId) == LET keep(p) == p.id # proxyId IN SelectSeq(ps, keep)

\* an addToPool that stores the items it found as unused again
addToPoolResetsFlags(ps, newProxies) ==
  [i \in 1..Len(ps) |-> [ps[i] EXCEPT !.used = FALSE]] \o newProxies

\* an addToPool that evicts the items in use before it appends
addToPoolDropsUsed(ps, newProxies) == Available(ps) \o newProxies

\* an addToPool that puts the new items in front
addToPoolInFront(ps, newProxies) == newProxies \o ps

addToPool(ps, newProxies) == ps \o newProxies

\* a low-water test that counts the items in use as well
shouldReplenishCountsAll(ps) == Len(ps) * RotationDen <= PoolSize * rotationThreshold

shouldReplenish(ps) == Len(Available(ps)) * RotationDen <= PoolSize * rotationThreshold

neededCount(ps) == PoolSize - Len(Available(ps))

getStats ==
  [poolSize |-> PoolSize, currentSize |-> size, available |-> Len(Available(proxies)),
   lastRefresh |-> lastRefresh, initialized |-> initialized]

Init ==
  /\ rotationThreshold \in Thresholds
  /\ sources \in SourceLists
  /\ proxies = <<>>
  /\ size = 0
  /\ lastRefresh = 0
  /\ initialized = FALSE
  /\ replenishing = FALSE
  /\ inflight = EmptyBag
  /\ refills = EmptyBag
  /\ removals = EmptyBag
  /\ nextId = 1
  /\ released = [s \in SourceIds |-> 0]
  /\ emitted = [t \in EventTypes |-> 0]
  /\ ret = NoRet
  /\ owned = {}
  /\ nops = 0
  /\ isActive = [s \in SourceIds |-> TRUE]
  /\ now = 1
  /\ fetched = NoFetch
  /\ response = NoResponse

\* ------------------------------------------------ SockerUnit.replenish
\* replenish(count) up to its first suspension: the first source's get(count)
\* has been called and is pending
replenishStart(count) ==
  [count |-> count, idx |-> 1, log |-> <<>>, got |-> sourceGet(1, count)]

\* a replenish whose loop does not return on the first non-empty batch while
\* sources are left
replenishKeepsGoing(r, out) ==
  LET log2 == Append(r.log, [src |-> r.idx, ok |-> out.ok, n |-> Len(out.items),
                             evt |-> ~out.ok])
  IN IF r.idx < Len(sources)
     THEN [st |-> "pending", rep |-> [r EXCEPT !.idx = @ + 1, !.log = log2,
                                        !.got = sourceGet(r.idx + 1, r.count)],
           items |-> <<>>]
     ELSE IF out.ok /\ Len(out.items) > 0
     THEN [st |-> "returned", rep |-> [r EXCEPT !.log = log2], items |-> out.items]
     ELSE [st |-> "thrown", rep |-> [r EXCEPT !.log = log2], items |-> <<>>]

\* a replenish that returns the empty batch of the last source instead of
\* throwing
replenishReturnsEmpty(r, out) ==
  LET log2 == Append(r.log, [src |-> r.idx, ok |-> out.ok, n |-> Len(out.items),
                             evt |-> ~out.ok])
  IN IF out.ok /\ (Len(out.items) > 0 \/ r.idx = Len(sources))
     THEN [st |-> "returned", rep |-> [r EXCEPT !.log = log2], items |-> out.items]
     ELSE IF r.idx < Len(sources)
     THEN [st |-> "pending", rep |-> [r EXCEPT !.idx = @ + 1, !.log = log2,
                                        !.got = sourceGet(r.idx + 1, r.count)],
           items |-> <<>>]
     ELSE [st |-> "thrown", rep |-> [r EXCEPT !.log = log2], items |-> <<>>]

\* the source awaited by r settles with out: return its batch, or call the
\* next source (after source.failed for a rejection), or throw at the end of
\* the list.  A log entry is one get(count) call: the source called, how it
\* settled and whether source.failed was emitted for it.
replenish(r, out) ==
  LET log2 == Append(r.log, [src |-> r.idx, ok |-> out.ok, n |-> Len(out.items),
                             evt |-> ~out.ok])
  IN IF out.ok /\ Len(out.items) > 0
     THEN [st |-> "returned", rep |-> [r EXCEPT !.log = log2], items |-> out.items]
     ELSE IF r.idx < Len(sources)
     THEN [st |-> "pending", rep |-> [r EXCEPT !.idx = @ + 1, !.log = log2,
                                        !.got = sourceGet(r.idx + 1, r.count)],
           items |-> <<>>]
     ELSE [st |-> "thrown", rep |-> [r EXCEPT !.log = log2], items |-> <<>>]

\* the ways the pending source.get of r can settle, each followed by replenish;
\* with an empty source list the loop body never runs and replenish throws
Settled(r) ==
  IF Len(sources) = 0
  THEN {[st |-> "thrown", rep |-> r, items |-> <<>>]}
  ELSE IF r.got.st = "settled"
  THEN {replenish(r, [ok |-> r.got.ok, items |-> r.got.items])}
  ELSE {replenish(r, out) : out \in Outcomes(r.count, nextId, r.idx)}

Returned(op, err, conn) ==
  ret' = [op |-> op, err |-> err, conn |-> conn, arg |-> NoConn, val |-> "none"]

\* failed(proxy) and delete(proxy) resolve with nothing; arg is the proxy passed
ReturnedOn(op, err, id) ==
  ret' = [op |-> op, err |-> err, conn |-> NoConn, arg |-> [id |-> id], val |-> "none"]

CanCall == nops < MaxOps
CanSuspend == BagCardinality(inflight) < MaxInflight

\* ----------------------------------------------------- ProxyUnit.init
\* an init flag that is never read back as set
isInitializedNever == FALSE

isInitialized == initialized

\* a try block that installs the batch and leaves `size` as it was
initThenKeepsSize(items) ==
  [proxies |-> items, size |-> size, lastRefresh |-> lastRefresh + 1,
   initialized |-> TRUE, emitted |-> Emit(emitted, "pool.initialized")]

\* a try block that adds the batch to what the pool holds
initThenAppends(items) ==
  [proxies |-> proxies \o items, size |-> Len(proxies \o items),
   lastRefresh |-> lastRefresh + 1, initialized |-> TRUE,
   emitted |-> Emit(emitted, "pool.initialized")]

\* the try block after the await: install the batch, stamp, latch, emit
initThen(items) ==
  [proxies |-> items, size |-> Len(items), lastRefresh |-> lastRefresh + 1,
   initialized |-> TRUE, emitted |-> Emit(emitted, "pool.initialized")]

\* a catch block that latches `initialized` although nothing was installed
initCatchLatches ==
  [proxies |-> proxies, size |-> size, lastRefresh |-> lastRefresh,
   initialized |-> TRUE, emitted |-> Emit(emitted, "pool.init.failed")]

\* the catch block: emit pool.init.failed and rethrow; no poolState.set
initCatch ==
  [proxies |-> proxies, size |-> size, lastRefresh |-> lastRefresh,
   initialized |-> initialized, emitted |-> Emit(emitted, "pool.init.failed")]

\* init() up to `await this.props.socker.replenish(poolSize)`
InitCall ==
  /\ CanCall
  /\ UNCHANGED <<rotationThreshold, sources, removals, meshVars>>
  /\ nops' = nops + 1
  /\ IF isInitialized
     THEN /\ Returned("init", "none", NoConn)
          /\ UNCHANGED <<poolVars, taskVars, srcVars, emitted, owned>>
     ELSE /\ CanSuspend
          /\ LET r == replenishStart(PoolSize)
             IN /\ inflight' = inflight (+) One([op |-> "init", rep |-> r, sel |-> NoConn])
          /\ UNCHANGED <<poolVars, refills, srcVars, emitted, ret, owned>>

\* the source awaited by a suspended init() settles; init() runs on
InitSettle(t) ==
  /\ t.op = "init"
  /\ UNCHANGED <<rotationThreshold, sources, removals, meshVars>>
  /\ \E x \in Settled(t.rep) :
       CASE x.st = "pending" ->
              /\ inflight' = (inflight (-) One(t)) (+) One([t EXCEPT !.rep = x.rep])
              /\ UNCHANGED <<poolVars, refills, srcVars, emitted, ret, owned, nops>>
         [] x.st = "returned" ->
              /\ proxies' = initThen(x.items).proxies
              /\ size' = initThen(x.items).size
              /\ lastRefresh' = initThen(x.items).lastRefresh
              /\ initialized' = initThen(x.items).initialized
              /\ emitted' = initThen(x.items).emitted
              /\ inflight' = inflight (-) One(t)
              /\ nextId' = nextId + Minted(x.items)
              /\ Returned("init", "none", NoConn)
              /\ UNCHANGED <<replenishing, refills, released, owned, nops>>
         [] x.st = "thrown" ->
              /\ proxies' = initCatch.proxies
              /\ size' = initCatch.size
              /\ lastRefresh' = initCatch.lastRefresh
              /\ initialized' = initCatch.initialized
              /\ emitted' = initCatch.emitted
              /\ inflight' = inflight (-) One(t)
              /\ Returned("init", "init failed", NoConn)
              /\ UNCHANGED <<replenishing, refills, srcVars, owned, nops>>

\* ------------------------------------------------------ ProxyUnit.get
\* get() without the check of lines 250-253
getNoInitGuard ==
  IF getFromPool(proxies) = NoConn THEN [err |-> "exhausted", conn |-> NoConn]
  ELSE [err |-> "none", conn |-> formatProxyConnection(getFromPool(proxies))]

\* get() without the check of lines 257-259
getNoExhaustGuard ==
  IF ~isInitialized THEN [err |-> "not initialized", conn |-> NoConn]
  ELSE [err |-> "none", conn |-> formatProxyConnection(getFromPool(proxies))]

\* get() runs to completion inside the call: the error it throws or the
\* connection it resolves with
get ==
  IF ~isInitialized THEN [err |-> "not initialized", conn |-> NoConn]
  ELSE IF getFromPool(proxies) = NoConn THEN [err |-> "exhausted", conn |-> NoConn]
  ELSE [err |-> "none", conn |-> formatProxyConnection(getFromPool(proxies))]

\* a get() that marks what it returns, as exclusive() does
poolAfterGetMarks(ps) == markProxyAsUsed(ps, getFromPool(ps).id)

\* the pool as get() leaves it: get() performs no poolState.set
poolAfterGet(ps) == ps

Get ==
  /\ CanCall
  /\ UNCHANGED <<rotationThreshold, sources, removals, meshVars>>
  /\ nops' = nops + 1
  /\ Returned("get", get.err, get.conn)
  /\ proxies' = poolAfterGet(proxies)
  /\ UNCHANGED <<size, lastRefresh, initialized, replenishing, taskVars, srcVars,
                 emitted, owned>>

\* ------------------------------------------------ ProxyUnit.exclusive
isReplenishing == replenishing

\* exclusive() up to `await this.get()`: get() has selected the item, or thrown
ExclusiveCall ==
  /\ CanCall
  /\ UNCHANGED <<rotationThreshold, sources, removals, meshVars>>
  /\ nops' = nops + 1
  /\ IF get.err # "none"
     THEN /\ Returned("exclusive", get.err, NoConn)
          /\ UNCHANGED inflight
     ELSE /\ CanSuspend
          /\ inflight' = inflight (+) One([op |-> "exclusive", rep |-> NoRep, sel |-> get.conn])
          /\ UNCHANGED ret
  /\ UNCHANGED <<poolVars, refills, srcVars, emitted, owned>>

\* line 275 without the isReplenishing() check
startsRefillNoLatch(ps) == shouldReplenish(ps)

\* the condition of line 275, on the pool after the marking
startsRefill(ps) == shouldReplenish(ps) /\ ~isReplenishing

\* an exclusive() that waits for the background refill under way
awaitGetSettledWhenIdle == ~replenishing

\* whether `await this.get()` lets exclusive() go on: get() has selected
\* without awaiting anything, so its promise is settled
awaitGetSettled == TRUE

\* exclusive() after the await: mark, check the low-water line, return
ExclusiveResume(t) ==
  /\ t.op = "exclusive"
  /\ awaitGetSettled
  /\ UNCHANGED <<rotationThreshold, sources, removals, meshVars>>
  /\ LET marked == markProxyAsUsed(proxies, t.sel.id)
     IN /\ proxies' = marked
        /\ IF startsRefill(marked)
           THEN \* replenishPool() up to the first source's pending get
                LET r == replenishStart(neededCount(marked))
                IN /\ replenishing' = TRUE
                   /\ refills' = refills (+) One([rep |-> r, phase |-> "fetch"])
              ELSE UNCHANGED <<replenishing, refills>>
  /\ inflight' = inflight (-) One(t)
  /\ Returned("exclusive", "none", t.sel)
  /\ owned' = owned \cup {t.sel.id}
  /\ UNCHANGED <<size, lastRefresh, initialized, nextId, released, emitted, nops>>

\* ------------------------------------------- ProxyUnit.failed / delete
\* the ids a caller can pass: the ids the sources can have built so far, and
\* 0, which no source builds
ArgIds ==
  (0..(nextId - 1)) \cup {MeshId(s, t) : s \in {m \in SourceIds : IsMesh(m)}, t \in 1..now}

Failed(id) ==
  /\ CanCall
  /\ UNCHANGED <<rotationThreshold, sources, removals, meshVars>>
  /\ nops' = nops + 1
  /\ proxies' = removeFromPool(proxies, id)
  /\ size' = Len(proxies')
  /\ owned' = owned \ {id}
  /\ ReturnedOn("failed", "none", id)
  /\ UNCHANGED <<lastRefresh, initialized, replenishing, taskVars, srcVars, emitted>>

\* a delete() guarded like get()
deleteGuardNotInitialized == IF ~initialized THEN "not initialized" ELSE "none"

\* the error delete() throws before touching anything: it has no guard
deleteGuard == "none"

\* --- SockerUnit.remove
\* remove(id) up to `await Promise.allSettled`: filter and map have called
\* remove(id) on every source that has it; pending holds the calls not yet
\* settled, failed the sources whose call rejected, evts the number of
\* source.remove.failed events emitted on SockerUnit's bus
\* a dispatch that skips the sources when the id is not in the pool
removeStartInPoolOnly(id) ==
  [id |-> id,
   pending |-> IF \E i \in 1..Len(proxies) : proxies[i].id = id
               THEN {s \in SourceIds : SupportsRemove(s)} ELSE {},
   failed |-> {}, evts |-> 0]

removeStart(id) ==
  [id |-> id, pending |-> {s \in SourceIds : SupportsRemove(s)}, failed |-> {}, evts |-> 0]

\* the remove(id) call on source s settles; a rejection runs the per-source
\* .catch, which emits source.remove.failed and resolves
removeSettle(t, s, ok) ==
  [t EXCEPT !.pending = @ \ {s},
            !.failed = IF ok THEN @ ELSE @ \cup {s},
            !.evts = IF ok THEN @ ELSE @ + 1]

\* a ProxyMeshSource.remove that keeps the endpoint
meshRemoveKeeps(s, id) == isActive[s]

\* ProxyMeshSource.remove(id): the value it stores in isActive, whatever id
meshRemove(s, id) == FALSE

\* a remove(id) that lets the rejection of a source through
removeResultPropagates(t) == IF t.failed # {} THEN "rejected" ELSE "resolved"

\* how remove(id) settles once Promise.allSettled has: every promise it waits
\* for carries its own .catch, and allSettled never rejects
removeResult(t) == "resolved"

\* the .catch delete() hangs on socker.remove(id)
deleteCatch(result) ==
  IF result = "rejected" THEN Emit(emitted, "proxy.remove.failed") ELSE emitted

CanDispatch == BagCardinality(removals) < MaxRemovals

Delete(id) ==
  /\ CanCall
  /\ nops' = nops + 1
  /\ IF deleteGuard # "none"
     THEN /\ ReturnedOn("delete", deleteGuard, id)
          /\ UNCHANGED <<proxies, size, owned, released, removals, isActive>>
     ELSE /\ CanDispatch
          /\ proxies' = removeFromPool(proxies, id)
          /\ size' = Len(proxies')
          /\ owned' = owned \ {id}
          \* socker.remove(id): every source that has remove() is called
          /\ released' = [s \in SourceIds |->
                            IF SupportsRemove(s) THEN released[s] + 1 ELSE released[s]]
          \* ProxyMeshSource.remove has no await: the flag is cleared inside the call
          /\ isActive' = [s \in SourceIds |-> IF IsMesh(s) THEN meshRemove(s, id) ELSE isActive[s]]
          /\ removals' = removals (+) One(removeStart(id))
          /\ ReturnedOn("delete", "none", id)
  /\ UNCHANGED <<rotationThreshold, sources, lastRefresh, initialized, replenishing, taskVars,
                 nextId, emitted, now, fetched, response>>

\* one source's remove(id) settles, successfully or not
RemoveSettle(t, s) ==
  /\ s \in t.pending
  \* ProxyMeshSource.remove cannot reject
  /\ \E ok \in (IF IsMesh(s) THEN {TRUE} ELSE BOOLEAN) :
       removals' = (removals (-) One(t)) (+) One(removeSettle(t, s, ok))
  /\ UNCHANGED <<rotationThreshold, sources, poolVars, taskVars, srcVars, obsVars, meshVars>>

\* every source call has settled: remove(id) settles and delete()'s .catch
\* runs if it rejected
RemoveDone(t) ==
  /\ t.pending = {}
  /\ removals' = removals (-) One(t)
  /\ emitted' = deleteCatch(removeResult(t))
  /\ UNCHANGED <<rotationThreshold, sources, poolVars, taskVars, srcVars, ret, owned, nops,
                 meshVars>>

\* ---------------------------------------------------- ProxyUnit.validate
\* a validator that accepts the connections whose item is in the pool
validateInPool(id) == \E i \in 1..Len(proxies) : proxies[i].id = id

\* Validate.validate: the placeholder returns false on both paths
validate(id) == FALSE

\* validate(proxy) awaits the validator and returns its answer; it reads and
\* writes no pool state
Validate(id) ==
  /\ CanCall
  /\ nops' = nops + 1
  /\ ret' = [op |-> "validate", err |-> "none", conn |-> NoConn, arg |-> [id |-> id],
             val |-> IF validate(id) THEN "true" ELSE "false"]
  /\ UNCHANGED <<rotationThreshold, sources, poolVars, taskVars, removals, srcVars,
                 emitted, owned, meshVars>>

\* ------------------------------------------ ProxyUnit.replenishPool chain
\* a .catch that reports the failure and a success
replenishCatchBoth == Emit(Emit(emitted, "pool.replenish.failed"), "pool.replenished")

\* a .catch that swallows the failure without an event
replenishCatchSilent == emitted

\* .catch: emit pool.replenish.failed; no poolState.set
replenishCatch == Emit(emitted, "pool.replenish.failed")

\* a .finally that clears the flag only after a refill that delivered
finallyFlagAfterSuccessOnly(t) ==
  ~(t.rep.log[Len(t.rep.log)].ok /\ t.rep.log[Len(t.rep.log)].n > 0)

\* .finally: the value it stores in `replenishing`, whatever the outcome
finallyFlag(t) == FALSE

\* the source awaited by a refill settles; .then / .catch run on the outcome
RefillSettle(t) ==
  /\ t.phase = "fetch"
  /\ UNCHANGED <<rotationThreshold, sources, removals, meshVars>>
  /\ \E x \in Settled(t.rep) :
       CASE x.st = "pending" ->
              /\ refills' = (refills (-) One(t)) (+) One([t EXCEPT !.rep = x.rep])
              /\ UNCHANGED <<poolVars, inflight, srcVars, emitted, ret, owned, nops>>
         [] x.st = "returned" ->
              \* .then: `if (newProxies.length > 0)`
              /\ IF Len(x.items) > 0
                 THEN /\ proxies' = addToPool(proxies, x.items)
                      /\ size' = Len(proxies')
                      /\ lastRefresh' = lastRefresh + 1
                      /\ emitted' = Emit(emitted, "pool.replenished")
                 ELSE UNCHANGED <<proxies, size, lastRefresh, emitted>>
              /\ refills' = (refills (-) One(t)) (+) One([t EXCEPT !.rep = x.rep, !.phase = "finally"])
              /\ nextId' = nextId + Minted(x.items)
              /\ UNCHANGED <<initialized, replenishing, inflight, released, ret, owned, nops>>
         [] x.st = "thrown" ->
              /\ emitted' = replenishCatch
              /\ refills' = (refills (-) One(t)) (+) One([t EXCEPT !.rep = x.rep, !.phase = "finally"])
              /\ UNCHANGED <<poolVars, inflight, srcVars, ret, owned, nops>>

\* .finally: clear the flag
RefillFinally(t) ==
  /\ t.phase = "finally"
  /\ UNCHANGED <<rotationThreshold, sources, removals, meshVars>>
  /\ replenishing' = finallyFlag(t)
  /\ refills' = refills (-) One(t)
  /\ UNCHANGED <<proxies, size, lastRefresh, initialized, inflight, srcVars, obsVars>>

Next ==
  \/ InitCall
  \/ \E t \in BagToSet(inflight) : InitSettle(t)
  \/ Get
  \/ ExclusiveCall
  \/ \E t \in BagToSet(inflight) : ExclusiveResume(t)
  \/ \E id \in ArgIds : Failed(id)
  \/ \E id \in ArgIds : Delete(id)
  \/ \E id \in ArgIds : Validate(id)
  \/ \E t \in BagToSet(refills) : RefillSettle(t)
  \/ \E t \in BagToSet(refills) : RefillFinally(t)
  \/ \E t \in BagToSet(removals) : \E s \in SourceIds : RemoveSettle(t, s)
  \/ \E t \in BagToSet(removals) : RemoveDone(t)

Spec == Init /\ [][Next]_vars

\* The event loop runs the continuation of every settled promise: a suspended
\* exclusive() resumes, .finally and the .catch of delete() run.  The source
\* calls (get, remove) are network calls that complete or time out: each
\* pending one settles.  Callers are under no obligation to call.
Fairness ==
  /\ WF_vars(\E t \in BagToSet(inflight) : InitSettle(t))
  /\ WF_vars(\E t \in BagToSet(inflight) : ExclusiveResume(t))
  /\ WF_vars(\E t \in BagToSet(refills) : RefillSettle(t))
  /\ WF_vars(\E t \in BagToSet(refills) : RefillFinally(t))
  /\ WF_vars(\E t \in BagToSet(removals) : \E s \in SourceIds : RemoveSettle(t, s))
  /\ WF_vars(\E t \in BagToSet(removals) : RemoveDone(t))

\* the unit the progress properties are checked on: two sources, the first
\* with remove and the second without, either threshold
FairInit ==
  /\ Init
  /\ sources = <<[remove |-> TRUE, kind |-> "api"], [remove |-> FALSE, kind |-> "api"]>>

FairSpec == FairInit /\ [][Next]_vars /\ Fairness

\* ------------------------------------- a unit over ProxyMesh endpoints
\* the counts a caller passes to get(count) of a source
Counts == {-1, 0, 1, PoolSize + 1}

\* a millisecond passes
Tick ==
  /\ now < MaxNow
  /\ now' = now + 1
  /\ UNCHANGED <<rotationThreshold, sources, poolVars, taskVars, removals, srcVars, obsVars,
                 isActive, fetched, response>>

\* source.get(count) called on ProxyMeshSource s directly
SourceGet(s, count) ==
  /\ CanCall /\ IsMesh(s)
  /\ nops' = nops + 1
  /\ fetched' = [seq |-> fetched.seq + 1, src |-> s, count |-> count,
                 ok |-> sourceGet(s, count).ok, items |-> sourceGet(s, count).items]
  /\ UNCHANGED <<rotationThreshold, sources, poolVars, taskVars, removals, srcVars,
                 emitted, ret, owned, isActive, now, response>>

\* source.remove(id) called on ProxyMeshSource s directly
SourceRemove(s, id) ==
  /\ CanCall /\ IsMesh(s)
  /\ nops' = nops + 1
  /\ isActive' = [isActive EXCEPT ![s] = meshRemove(s, id)]
  /\ released' = [released EXCEPT ![s] = @ + 1]
  /\ UNCHANGED <<rotationThreshold, sources, poolVars, taskVars, removals, nextId,
                 emitted, ret, owned, now, fetched, response>>

\* ProxyMeshSource.reactivate()
Reactivate(s) ==
  /\ CanCall /\ IsMesh(s)
  /\ nops' = nops + 1
  /\ isActive' = [isActive EXCEPT ![s] = TRUE]
  /\ UNCHANGED <<rotationThreshold, sources, poolVars, taskVars, removals, srcVars,
                 emitted, ret, owned, now, fetched, response>>

\* a unit created over ProxyMeshSources only
MeshInit ==
  /\ rotationThreshold \in Thresholds
  /\ sources \in MeshLists
  /\ proxies = <<>> /\ size = 0 /\ lastRefresh = 0
  /\ initialized = FALSE /\ replenishing = FALSE
  /\ inflight = EmptyBag /\ refills = EmptyBag /\ removals = EmptyBag
  /\ nextId = 1
  /\ released = [s \in SourceIds |-> 0]
  /\ emitted = [t \in EventTypes |-> 0]
  /\ ret = NoRet /\ owned = {} /\ nops = 0
  /\ isActive = [s \in SourceIds |-> TRUE]
  /\ now = 1
  /\ fetched = NoFetch
  /\ response = NoResponse

MeshNext ==
  \/ InitCall
  \/ \E t \in BagToSet(inflight) : InitSettle(t)
  \/ Get
  \/ ExclusiveCall
  \/ \E t \in BagToSet(inflight) : ExclusiveResume(t)
  \/ \E id \in ArgIds : Failed(id)
  \/ \E id \in ArgIds : Delete(id)
  \/ \E id \in ArgIds : Validate(id)
  \/ \E t \in BagToSet(refills) : RefillSettle(t)
  \/ \E t \in BagToSet(refills) : RefillFinally(t)
  \/ \E t \in BagToSet(removals) : \E s \in SourceIds : RemoveSettle(t, s)
  \/ \E t \in BagToSet(removals) : RemoveDone(t)
  \/ Tick
  \/ \E s \in SourceIds : \E count \in Counts : SourceGet(s, count)
  \/ \E s \in SourceIds : \E id \in ArgIds : SourceRemove(s, id)
  \/ \E s \in SourceIds : Reactivate(s)

MeshSpec == MeshInit /\ [][MeshNext]_vars

\* ------------------------------------------------------- OculusSource
\* a proxy string of a response: characters, of which ":" separates fields
Chars == {":", "a"}
ProxyStrings == UNION {[1..n -> Chars] : n \in 0..MaxStrLen}

\* what the request of callApi can end in: fetch rejects, a status that is
\* not ok, a JSON array of strings, a JSON object that holds such an array,
\* or any other JSON value
Responses ==
  {[kind |-> k, list |-> <<>>] : k \in {"network", "http", "other"}}
    \cup {[kind |-> k, list |-> l] :
            k \in {"array", "object"},
            l \in UNION {[1..n -> ProxyStrings] : n \in 0..MaxBatch}}

\* String.prototype.split(':')
RECURSIVE split(_)
split(str) ==
  IF str = <<>> THEN << <<>> >>
  ELSE LET rest == split(Tail(str))
       IN IF Head(str) = ":" THEN << <<>> >> \o rest
          ELSE << <<Head(str)>> \o rest[1] >> \o Tail(rest)

\* Number(port) on a field over Chars: 0 for the empty string, NaN otherwise
Number(field) == IF field = <<>> THEN "0" ELSE "NaN"

\* callApi: { proxies } for a JSON array, { error } for everything else
callApi(resp) ==
  IF resp.kind = "array"
  THEN [error |-> FALSE, proxies |-> resp.list]
  ELSE [error |-> TRUE, proxies |-> <<>>]

\* parseProxyString(proxyString, index) of a string that has four fields
parseProxyString(proxyString, index) ==
  LET parts == split(proxyString)
  IN [id |-> [t |-> now, i |-> index], host |-> parts[1], port |-> Number(parts[2]),
      username |-> parts[3], password |-> parts[4], used |-> FALSE]

\* whether parseProxyString throws on the string
invalidFormat(proxyString) == Len(split(proxyString)) # 4

\* a get that leaves out the strings it cannot parse
oculusGetSkipsInvalid(resp, count) ==
  LET r == callApi(resp)
      valid(str) == ~invalidFormat(str)
      kept == SelectSeq(r.proxies, valid)
  IN IF r.error \/ Len(kept) = 0 THEN [ok |-> FALSE, items |-> <<>>]
     ELSE [ok |-> TRUE,
           items |-> [i \in 1..Len(kept) |-> parseProxyString(kept[i], i - 1)]]

\* OculusSource.get(count) on the answer of the API: it throws on an error,
\* on no proxies, and when parseProxyString throws inside the map
oculusGet(resp, count) ==
  LET r == callApi(resp)
  IN IF r.error THEN [ok |-> FALSE, items |-> <<>>]
     ELSE IF Len(r.proxies) = 0 THEN [ok |-> FALSE, items |-> <<>>]
     ELSE IF \E i \in 1..Len(r.proxies) : invalidFormat(r.proxies[i])
     THEN [ok |-> FALSE, items |-> <<>>]
     ELSE [ok |-> TRUE,
           items |-> [i \in 1..Len(r.proxies) |-> parseProxyString(r.proxies[i], i - 1)]]

\* get(count) called on the OculusSource
OculusGet(count) ==
  /\ CanCall
  /\ nops' = nops + 1
  /\ fetched' = [seq |-> fetched.seq + 1, src |-> 1, count |-> count,
                 ok |-> oculusGet(response, count).ok,
                 items |-> oculusGet(response, count).items]
  /\ UNCHANGED <<rotationThreshold, sources, poolVars, taskVars, removals, srcVars,
                 emitted, ret, owned, isActive, now, response>>

\* an OculusSource on its own, with the answer its API gives to its requests
OculusInit ==
  /\ rotationThreshold = RotationNum
  /\ sources = <<[remove |-> TRUE, kind |-> "api"]>>
  /\ proxies = <<>> /\ size = 0 /\ lastRefresh = 0
  /\ initialized = FALSE /\ replenishing = FALSE
  /\ inflight = EmptyBag /\ refills = EmptyBag /\ removals = EmptyBag
  /\ nextId = 1
  /\ released = [s \in SourceIds |-> 0]
  /\ emitted = [t \in EventTypes |-> 0]
  /\ ret = NoRet /\ owned = {} /\ nops = 0
  /\ isActive = [s \in SourceIds |-> TRUE]
  /\ now = 1
  /\ fetched = NoFetch
  /\ response \in Responses

OculusNext ==
  \/ \E count \in Counts : OculusGet(count)
  \/ Tick

OculusSpec == OculusInit /\ [][OculusNext]_vars

\* ================================================================ claims
\* A claim about the steps of the program is stated in two definitions: Cn_Step
\* is what the claim asks of one step (a relation between the state before and
\* the state after), and the claim itself is the state predicate
\* ~ENABLED <<Next /\ ~Cn_Step>>_vars: from this state the program can take no
\* step that changes the state and breaks Cn_Step.  It holds in every
\* reachable state exactly when every step of every behaviour satisfies
\* Cn_Step, that is [][Cn_Step]_vars.  A claim that the code refutes is stated
\* as [][...]_vars, so that the refuting run ends with the step at fault.
\* a public call that ran to completion inside the call and returned as op
SyncReturn(op) == nops' = nops + 1 /\ inflight' = inflight /\ ret'.op = op

\* the calls that suspend in this step, and the suspended calls that return in it
Suspending(op) ==
  {t \in BagToSet(inflight') :
     /\ t.op = op
     /\ CopiesIn(t, inflight') > CopiesIn(t, inflight)
     /\ BagCardinality(inflight') > BagCardinality(inflight)}
Returning(op) ==
  {t \in BagToSet(inflight) :
     /\ t.op = op
     /\ CopiesIn(t, inflight') < CopiesIn(t, inflight)
     /\ BagCardinality(inflight') < BagCardinality(inflight)}

InPool(id) == \E i \in 1..Len(proxies) : proxies[i].id = id

\* C1: exclusivity over sequential calls.  owned holds the ids exclusive() has
\* returned and that no failed()/delete() has named since.  A get() or an
\* exclusive() that is called after such a return selects (and so returns) an
\* id that is not owned.
C1_Step ==
  /\ \A t \in Suspending("exclusive") : t.sel.id \notin owned
  /\ (SyncReturn("get") /\ ret'.err = "none") => ret'.conn.id \notin owned

C2_RacingDistinct ==
  [][ \A t \in Returning("exclusive") : t.sel.id \notin owned ]_vars

\* C3: bounded pool: between operations (no public call suspended) the pool
\* holds at most poolSize items.
C3_BoundedPool == inflight = EmptyBag => Len(proxies) <= PoolSize

\* C4: refill singleton: at most one background refill is outstanding, and
\* the replenishing flag is set exactly when one is.
C4_RefillSingleton ==
  /\ BagCardinality(refills) <= 1
  /\ replenishing <=> BagCardinality(refills) = 1

\* a refill is outstanding and a suspended exclusive() is about to resume at
\* or below the low-water line
C4_Witness ==
  /\ replenishing
  /\ \E t \in BagToSet(inflight) :
       t.op = "exclusive" /\ shouldReplenish(markProxyAsUsed(proxies, t.sel.id))

\* C5: init idempotence: once initialized, an init() call starts no replenish
\* and returns at once, successfully, changing neither the pool, the flags,
\* lastRefresh, the tasks nor the sources, and emitting nothing.
C5_Step ==
  initialized =>
    /\ Suspending("init") = {}
    /\ SyncReturn("init") =>
         /\ ret'.err = "none"
         /\ UNCHANGED <<poolVars, taskVars, srcVars, emitted>>

\* C5: init idempotence, as C5_Step states it for one step: no step that the
\* program can take from a reachable state breaks C5_Step.
C5_InitIdempotent == ~ENABLED <<Next /\ ~C5_Step>>_vars

\* init() has returned on a pool that was initialized before (an item has been
\* handed out), with one pool.initialized event in all
C5_Witness ==
  /\ ret.op = "init" /\ ret.err = "none"
  /\ owned # {}
  /\ inflight = EmptyBag
  /\ emitted["pool.initialized"] = 1 /\ emitted["pool.init.failed"] = 0

\* C6: a failed init is retryable: an init() that fails emits one
\* pool.init.failed and nothing else, leaves proxies, size, lastRefresh and
\* initialized as they were, and an init() on an uninitialized pool never
\* returns without asking the sources again.
C6_Step ==
  /\ \A t \in Returning("init") :
       ret'.err # "none" =>
         /\ ret'.err = "init failed"
         /\ emitted' = Emit(emitted, "pool.init.failed")
         /\ UNCHANGED <<poolVars, refills>>
  /\ ~initialized => ~SyncReturn("init")

\* C6: a failed init is retryable, as C6_Step states it for one step: no step
\* that the program can take from a reachable state breaks C6_Step.
C6_FailedInitRetryable == ~ENABLED <<Next /\ ~C6_Step>>_vars

\* an init() failed and a later init() succeeded
C6_Witness ==
  /\ initialized
  /\ emitted["pool.init.failed"] >= 1
  /\ emitted["pool.initialized"] = 1
  /\ ret.op = "init" /\ ret.err = "none"

ReleaseDispatched ==
  released' = [s \in SourceIds |-> IF SupportsRemove(s) THEN released[s] + 1 ELSE released[s]]

\* C7 as claimed: while initialized = false, get(), exclusive() and delete()
\* fail with "not initialized" and touch neither the pool, the flags nor the
\* sources.
C7_NotInitializedGuard ==
  [][ ~initialized =>
        /\ Suspending("exclusive") = {}
        /\ (SyncReturn("get") \/ SyncReturn("exclusive") \/ SyncReturn("delete")) =>
             /\ ret'.err = "not initialized"
             /\ UNCHANGED <<poolVars, taskVars, srcVars>> ]_vars

\* C7 amended: while initialized = false, get() and exclusive() fail with
\* "not initialized" and touch nothing; delete() does not fail: it leaves the
\* pool and the flags as they were and still dispatches remove(id) to every
\* source that implements it.
C7_Step ==
  ~initialized =>
    /\ Suspending("exclusive") = {}
    /\ (SyncReturn("get") \/ SyncReturn("exclusive")) =>
         /\ ret'.err = "not initialized"
         /\ UNCHANGED <<poolVars, taskVars, srcVars>>
    /\ SyncReturn("delete") =>
         /\ ret'.err = "none"
         /\ UNCHANGED <<poolVars, taskVars, nextId>>
         /\ ReleaseDispatched

\* C7: the guard of get() and exclusive(), which delete() does not have, as
\* C7_Step states it for one step: no step that the program can take from a
\* reachable state breaks C7_Step.
C7_GuardOnAcquire == ~ENABLED <<Next /\ ~C7_Step>>_vars

\* exclusive() has failed on an uninitialized pool after a delete() reached
\* the sources
C7_Witness ==
  /\ ~initialized
  /\ ret.op = "exclusive" /\ ret.err = "not initialized"
  /\ released[1] >= 1

\* C8: acquire purity: get() changes nothing (pool, flags, lastRefresh, tasks,
\* sources, events, stats), and a get() that follows a successful get() with
\* no other call returning in between returns the same connection.
C8_Step ==
  SyncReturn("get") =>
    /\ UNCHANGED <<poolVars, taskVars, srcVars, emitted, owned>>
    /\ UNCHANGED getStats
    /\ (ret.op = "get" /\ ret.err = "none") => ret' = ret

\* C8: acquire purity, as C8_Step states it for one step: no step that the
\* program can take from a reachable state breaks C8_Step.
C8_AcquirePurity == ~ENABLED <<Next /\ ~C8_Step>>_vars

\* get() has returned the first unused item, which is not the head of the pool
C8_Witness ==
  /\ ret.op = "get" /\ ret.err = "none"
  /\ Len(proxies) >= 2 /\ proxies[1].used
  /\ ret.conn = formatProxyConnection(getFromPool(proxies))

\* C9: exhaustion: on an initialized pool without an unused item, get() and
\* exclusive() fail at once with the exhaustion error; the caller is not
\* suspended and nothing changes.
C9_Step ==
  (initialized /\ Len(Available(proxies)) = 0) =>
    /\ Suspending("exclusive") = {}
    /\ (SyncReturn("get") \/ SyncReturn("exclusive")) =>
         /\ ret'.err = "exhausted"
         /\ UNCHANGED <<poolVars, taskVars, srcVars>>

\* C9: exhaustion, as C9_Step states it for one step: no step that the program
\* can take from a reachable state breaks C9_Step.
C9_Exhausted == ~ENABLED <<Next /\ ~C9_Step>>_vars

\* exclusive() has failed on a pool whose items are all in use
C9_Witness ==
  /\ initialized
  /\ ret.op = "exclusive" /\ ret.err = "exhausted"
  /\ Len(proxies) >= 1
  /\ \A i \in 1..Len(proxies) : proxies[i].used

\* C10: source fallback order.  A replenish call asks the sources in list
\* order, each once (entry i of its log is source i), goes on only past
\* sources that failed or returned nothing, and what it returns is the batch
\* of the last source it asked, whole and alone.
Success(e) == e.ok /\ e.n > 0
LogInOrder(r) ==
  /\ \A i \in 1..Len(r.log) : r.log[i].src = i
  /\ \A i \in 1..(Len(r.log) - 1) : ~Success(r.log[i])
Awaiting(r) ==
  /\ LogInOrder(r)
  /\ r.idx = Len(r.log) + 1
  /\ (r.idx <= Len(sources) \/ Len(sources) = 0)
  /\ \A i \in 1..Len(r.log) : ~Success(r.log[i])
Last(r) == r.log[Len(r.log)]
RefillDone ==
  {t \in BagToSet(refills') :
     t.phase = "finally" /\ CopiesIn(t, refills') > CopiesIn(t, refills)}
C10_Step ==
  /\ \A t \in BagToSet(inflight') : t.op = "init" => Awaiting(t.rep)
  /\ \A t \in BagToSet(refills') :
       IF t.phase = "fetch" THEN Awaiting(t.rep) ELSE LogInOrder(t.rep)
  /\ \A t \in Returning("init") :
       ret'.err = "none" =>
         /\ Len(proxies') >= 1
         /\ \A i \in 1..Len(proxies') : proxies'[i].src = t.rep.idx
  /\ \A t \in RefillDone :
       Success(Last(t.rep)) =>
         /\ Len(proxies') = Len(proxies) + Last(t.rep).n
         /\ \A i \in (Len(proxies) + 1)..Len(proxies') :
              proxies'[i].src = Last(t.rep).src

\* C10: source fallback order, as C10_Step states it for one step: no step that
\* the program can take from a reachable state breaks C10_Step.
C10_FallbackOrder == ~ENABLED <<Next /\ ~C10_Step>>_vars

\* a refill whose first source failed and whose second source delivered
C10_Witness ==
  \E t \in BagToSet(refills) :
    /\ t.phase = "finally"
    /\ Len(t.rep.log) = 2
    /\ ~t.rep.log[1].ok
    /\ Success(t.rep.log[2])
    /\ Len(proxies) >= 1 /\ proxies[Len(proxies)].src = 2

\* C11: low-water trigger.  An exclusive() call that returns an item starts a
\* background refill if and only if, counted on the pool after the marking,
\* unused <= poolSize * rotationThreshold and the replenishing
\* flag was clear; it then starts exactly one and sets the flag.  No other
\* step starts a refill.
RefillStarted == BagCardinality(refills') > BagCardinality(refills)
C11_Step ==
  /\ \A t \in Returning("exclusive") :
       /\ RefillStarted <=>
            (/\ Len(Available(proxies')) * RotationDen <= PoolSize * rotationThreshold
             /\ ~replenishing)
       /\ RefillStarted =>
            /\ BagCardinality(refills') = BagCardinality(refills) + 1
            /\ replenishing'
       /\ ~RefillStarted => UNCHANGED <<refills, replenishing>>
  /\ RefillStarted => Returning("exclusive") # {}

\* C11: low-water trigger, as C11_Step states it for one step: no step that the
\* program can take from a reachable state breaks C11_Step.
C11_LowWaterTrigger == ~ENABLED <<Next /\ ~C11_Step>>_vars

\* of two items installed by init(), the first exclusive() left one unused and
\* started nothing; the second has just started the first refill
C11_Witness ==
  /\ ret.op = "exclusive" /\ ret.err = "none"
  /\ inflight = EmptyBag
  /\ lastRefresh = 1
  /\ Len(proxies) = 2 /\ Len(Available(proxies)) = 0
  /\ replenishing
  /\ \E t \in BagToSet(refills) :
       t.phase = "fetch" /\ t.rep.log = <<>> /\ t.rep.count = PoolSize
  /\ emitted["pool.replenish.failed"] = 0

\* the pool without the items whose id is id, the others in place and untouched
Without(ps, id) == LET other(p) == p.id # id IN SelectSeq(ps, other)

\* C12: failed(c) is local-only.  It removes the item with id c.id from the
\* pool whether or not it is in use, leaves every other item, its place and
\* its used flag as they were, calls remove on no source (no dispatch, no
\* source call counted), emits no event and starts no refill; the flags and
\* lastRefresh stay as they were.
C12_Step ==
  SyncReturn("failed") =>
    /\ proxies' = Without(proxies, ret'.arg.id)
    /\ \A i \in 1..Len(proxies) :
         (proxies[i].id = ret'.arg.id /\ proxies[i].used) =>
           \A j \in 1..Len(proxies') : proxies'[j].id # ret'.arg.id
    /\ size' = Len(proxies')
    /\ UNCHANGED <<released, removals, emitted, refills, replenishing,
                   initialized, lastRefresh, inflight, nextId>>

\* C12: failed(c) is local-only, as C12_Step states it for one step: no step
\* that the program can take from a reachable state breaks C12_Step.
C12_RejectLocalOnly == ~ENABLED <<Next /\ ~C12_Step>>_vars

\* failed(1) has removed the item in use, the first of two, while the refill
\* that exclusive() started is outstanding; the other item is in place, unused
C12_Witness ==
  /\ ret.op = "failed" /\ ret.arg.id = 1
  /\ Len(proxies) = 1 /\ proxies[1].id = 2 /\ ~proxies[1].used
  /\ replenishing /\ lastRefresh = 1
  /\ removals = EmptyBag /\ \A s \in SourceIds : released[s] = 0

\* the sources of the list that implement remove
Removers == {s \in 1..Len(sources) : sources[s].remove}

\* C13: delete(c) removes and notifies.  It removes the item with id c.id from
\* the pool and leaves the others, their places and used flags as they were
\* (the pool is unchanged when c.id is not in it), and in the same call it
\* starts one dispatch for c.id that has called remove(c.id) once on every
\* source that implements remove and on no other.
C13_Step ==
  SyncReturn("delete") =>
    /\ proxies' = Without(proxies, ret'.arg.id)
    /\ ~InPool(ret'.arg.id) => proxies' = proxies
    /\ size' = Len(proxies')
    /\ removals' = removals (+) One([id |-> ret'.arg.id, pending |-> Removers,
                                     failed |-> {}, evts |-> 0])
    /\ \A s \in SourceIds :
         released'[s] = released[s] + (IF s \in Removers THEN 1 ELSE 0)

\* C13: delete(c) removes and notifies, as C13_Step states it for one step: no
\* step that the program can take from a reachable state breaks C13_Step.
C13_DiscardRemovesAndNotifies == ~ENABLED <<Next /\ ~C13_Step>>_vars

\* delete() of an id the pool does not hold, with a first source that has no
\* remove and a second that has: the pool is intact, the second source alone
\* has been called
C13_Witness ==
  /\ ret.op = "delete" /\ ret.arg.id = 0
  /\ Len(sources) = 2 /\ ~sources[1].remove /\ sources[2].remove
  /\ Len(proxies) = 2
  /\ released[1] = 0 /\ released[2] = 1
  /\ \E t \in BagToSet(removals) : t.id = 0 /\ t.pending = {2}

\* C14: a release failure is observable on the pool manager: whenever the
\* remove(id) call of a source has rejected in a dispatch that delete()
\* started, ProxyUnit eventually emits proxy.remove.failed.
ReleaseFailed == \E t \in BagToSet(removals) : t.failed # {}
C14_ReleaseFailureObservable ==
  ReleaseFailed ~> (emitted["proxy.remove.failed"] >= 1)

\* C15: failed(c) and delete(c) never fail: whatever the state (initialized or
\* not, c.id in the pool or not, the item used or not) they return inside the
\* call, without an error; and however the remove calls of the sources settle
\* afterwards, no step of the dispatch changes what the caller was returned.
DispatchStep == removals' # removals /\ nops' = nops
C15_Step ==
  /\ (SyncReturn("failed") \/ SyncReturn("delete")) => ret'.err = "none"
  /\ DispatchStep => ret' = ret

\* C15: failed(c) and delete(c) never fail, as C15_Step states it for one step:
\* no step that the program can take from a reachable state breaks C15_Step.
C15_RejectDiscardNeverFail == ~ENABLED <<Next /\ ~C15_Step>>_vars

\* delete() has returned without error on a pool that is not initialized, and
\* the dispatch it started has since ended with a source whose remove rejected
C15_Witness ==
  /\ ~initialized
  /\ ret.op = "delete" /\ ret.err = "none"
  /\ \E t \in BagToSet(removals) :
       t.id = ret.arg.id /\ t.pending = {} /\ t.failed # {}

\* the dispatches that complete in this step, and the source call that settles
RemoveCompleting ==
  {t \in BagToSet(removals) :
     /\ CopiesIn(t, removals') < CopiesIn(t, removals)
     /\ BagCardinality(removals') < BagCardinality(removals)}
RemoveSettling ==
  {t \in BagToSet(removals) :
     /\ CopiesIn(t, removals') < CopiesIn(t, removals)
     /\ BagCardinality(removals') = BagCardinality(removals)}

\* C16: SockerUnit.remove is best-effort and total.  A dispatch starts with a
\* remove(id) call pending on every source that implements remove and on no
\* other; it completes only when none of these calls is pending; it completes
\* successfully whichever of them rejected (the caller's .catch does not run:
\* nothing is emitted on ProxyUnit's bus); and each call that settles adds one
\* source.remove.failed event if it rejected and none if it did not, so that a
\* dispatch carries exactly one event per failing source.
C16_Step ==
  /\ \A t \in BagToSet(removals') :
       CopiesIn(t, removals) = 0 =>
         /\ t.pending \cup t.failed \subseteq Removers
         /\ t.pending \cap t.failed = {}
         /\ t.evts = Cardinality(t.failed)
  /\ SyncReturn("delete") =>
       \E t \in BagToSet(removals') :
         /\ CopiesIn(t, removals') > CopiesIn(t, removals)
         /\ t.pending = Removers /\ t.failed = {}
  /\ \A t \in RemoveSettling :
       \E u \in BagToSet(removals') : \E s \in t.pending :
         /\ CopiesIn(u, removals') > CopiesIn(u, removals)
         /\ u.id = t.id /\ u.pending = t.pending \ {s}
         /\ \/ u.failed = t.failed /\ u.evts = t.evts
            \/ u.failed = t.failed \cup {s} /\ u.evts = t.evts + 1
  /\ \A t \in RemoveCompleting :
       /\ t.pending = {}
       /\ emitted' = emitted /\ ret' = ret

\* C16: SockerUnit.remove is best-effort and total, as C16_Step states it for
\* one step: no step that the program can take from a reachable state breaks
\* C16_Step.
C16_ReleaseBestEffortTotal == ~ENABLED <<Next /\ ~C16_Step>>_vars

\* both sources implement remove; the first one's call rejected, the second
\* one's succeeded, one event was emitted and the dispatch is about to complete
C16_Witness ==
  /\ Len(sources) = 2 /\ sources[1].remove /\ sources[2].remove
  /\ \E t \in BagToSet(removals) : t.pending = {} /\ t.failed = {1} /\ t.evts = 1
  /\ emitted["proxy.remove.failed"] = 0

\* the replenish calls under way or just ended: those of the suspended init()
\* calls and those of the background refills
Replenishes ==
  {t.rep : t \in {u \in BagToSet(inflight) : u.op = "init"}}
    \cup {t.rep : t \in BagToSet(refills)}

\* C17: source.failed per skipped source: in every replenish call, each source
\* the loop has gone past, because its get(count) rejected or because it
\* returned an empty batch, has had its source.failed event emitted by the
\* time the next source is asked.
C17_SourceFailedPerSkipped ==
  \A r \in Replenishes :
    \A i \in 1..Len(r.log) : ~Success(r.log[i]) => r.log[i].evt

\* every source of the list has been asked and none delivered an item
AllExhausted(r) ==
  /\ Len(r.log) = Len(sources)
  /\ \A i \in 1..Len(r.log) : ~Success(r.log[i])

\* C18: all sources exhausted.  A replenish call fails exactly when every
\* source of the list has rejected or returned an empty batch (at once when
\* the list is empty); otherwise it returns the non-empty batch of the last
\* source asked.  It never returns an empty batch.  Seen from the callers: a
\* background refill ends in pool.replenish.failed exactly when every source
\* was exhausted and otherwise adds at least one item; an init() that fails
\* was awaiting the last source (or had none) with every earlier one
\* exhausted, and an init() that succeeds installs at least one item.
C18_Step ==
  /\ \A t \in RefillDone :
       /\ (emitted'["pool.replenish.failed"] = emitted["pool.replenish.failed"] + 1)
            <=> AllExhausted(t.rep)
       /\ ~AllExhausted(t.rep) =>
            /\ Success(Last(t.rep))
            /\ Len(proxies') = Len(proxies) + Last(t.rep).n
            /\ emitted'["pool.replenished"] = emitted["pool.replenished"] + 1
       /\ AllExhausted(t.rep) =>
            proxies' = proxies /\ emitted'["pool.replenished"] = emitted["pool.replenished"]
  /\ \A t \in Returning("init") :
       /\ ret'.err \in {"none", "init failed"}
       /\ ret'.err = "init failed" =>
            /\ \A i \in 1..Len(t.rep.log) : ~Success(t.rep.log[i])
            /\ Len(sources) = 0 \/ t.rep.idx = Len(sources)
            /\ proxies' = proxies
       /\ ret'.err = "none" => Len(proxies') >= 1

\* C18: all sources exhausted, as C18_Step states it for one step: no step that
\* the program can take from a reachable state breaks C18_Step.
C18_AllSourcesExhausted == ~ENABLED <<Next /\ ~C18_Step>>_vars

\* a background refill has failed after its first source returned an empty
\* batch and its second one rejected
C18_Witness ==
  /\ emitted["pool.replenish.failed"] = 1
  /\ \E t \in BagToSet(refills) :
       /\ t.phase = "finally"
       /\ Len(t.rep.log) = 2
       /\ t.rep.log[1].ok /\ t.rep.log[1].n = 0
       /\ ~t.rep.log[2].ok

\* with an empty source list init() has failed without any source being asked
C18_EmptyListReached ==
  Len(sources) = 0 /\ ret.op = "init" /\ ret.err = "init failed"

\* the refills whose chain ends in this step (.finally has run)
RefillEnding ==
  {t \in BagToSet(refills) :
     /\ CopiesIn(t, refills') < CopiesIn(t, refills)
     /\ BagCardinality(refills') < BagCardinality(refills)}

\* C19: failed background refill.  When the replenish of a background refill
\* fails, that step leaves proxies (items, order, used flags), size,
\* lastRefresh and initialized as they were and emits exactly one
\* pool.replenish.failed and nothing else; the step that ends the refill
\* clears the replenishing flag and touches nothing else; and no error
\* reaches a caller: the exclusive() that started the refill had returned its
\* item, and no step of the refill changes what a caller was returned or
\* resumes a suspended call.
C19_Step ==
  /\ \A t \in RefillDone :
       AllExhausted(t.rep) =>
         /\ UNCHANGED <<proxies, size, lastRefresh, initialized, replenishing>>
         /\ emitted' = Emit(emitted, "pool.replenish.failed")
         /\ UNCHANGED <<ret, inflight, owned>>
  /\ \A t \in RefillEnding :
       /\ t.phase = "finally"
       /\ ~replenishing'
       /\ UNCHANGED <<proxies, size, lastRefresh, initialized, emitted, ret,
                      inflight, owned>>
  /\ \A t \in Returning("exclusive") :
       RefillStarted => ret'.err = "none" /\ ret'.conn = t.sel

\* C19: failed background refill, as C19_Step states it for one step: no step
\* that the program can take from a reachable state breaks C19_Step.
C19_FailedRefill == ~ENABLED <<Next /\ ~C19_Step>>_vars

\* the one refill of the run has failed and ended: the flag is clear, the pool
\* is as init() and the exclusive() calls left it, the caller holds its item
C19_Witness ==
  /\ emitted["pool.replenish.failed"] = 1 /\ emitted["pool.replenished"] = 0
  /\ refills = EmptyBag /\ ~replenishing
  /\ ret.op = "exclusive" /\ ret.err = "none"
  /\ lastRefresh = 1
  /\ Len(proxies) >= 1 /\ Len(Available(proxies)) = 0

\* C20: guaranteed latch release.  Provided the source calls of a refill
\* settle, a set replenishing flag is eventually cleared, whether the refill
\* delivered or failed; and the flag is never set without a refill under way.
C20_LatchReleased ==
  /\ replenishing ~> ~replenishing
  /\ [](replenishing => refills # EmptyBag)

\* a refill has ended, the flag was cleared, and a later exclusive() at the
\* low-water line has started a new refill
C20_Witness ==
  /\ lastRefresh = 2 /\ emitted["pool.replenished"] = 1
  /\ replenishing
  /\ \E t \in BagToSet(refills) : t.phase = "fetch"
  /\ ret.op = "exclusive" /\ ret.err = "none"

\* C21: non-blocking exclusive acquisition.  The exclusive() call that starts
\* a refill returns its connection in the very step that starts it, while the
\* first source's get(count) of that refill is still pending; and a suspended
\* exclusive() can always resume and return, whatever refill is under way and
\* whether or not its source call ever settles.
C21_Step ==
  RefillStarted =>
    /\ \E t \in Returning("exclusive") :
         ret'.op = "exclusive" /\ ret'.err = "none" /\ ret'.conn = t.sel
    /\ \E r \in BagToSet(refills') :
         /\ CopiesIn(r, refills') > CopiesIn(r, refills)
         /\ r.phase = "fetch" /\ r.rep.log = <<>> /\ r.rep.idx = 1

\* C21: non-blocking exclusive acquisition: no step that the program can take
\* from a reachable state breaks C21_Step, and in every reachable state each
\* suspended exclusive() can resume.
C21_NonBlockingExclusive ==
  /\ ~ENABLED <<Next /\ ~C21_Step>>_vars
  /\ \A t \in BagToSet(inflight) : t.op = "exclusive" => ENABLED ExclusiveResume(t)

\* a second exclusive() is suspended while the refill started by the first is
\* awaiting its first source
C21_Witness ==
  /\ replenishing
  /\ \E r \in BagToSet(refills) : r.phase = "fetch" /\ r.rep.log = <<>>
  /\ \E t \in BagToSet(inflight) : t.op = "exclusive"
  /\ ret.op = "exclusive" /\ ret.err = "none"

\* C28: validator stub.  validate(c) returns false for every connection c, in
\* every state of the pool manager (initialized or not, c in the pool or not,
\* in use or not), without an error, and changes neither the pool nor a flag,
\* a task, a source or an event.
C28_Step ==
  SyncReturn("validate") =>
    /\ ret'.val = "false" /\ ret'.err = "none"
    /\ UNCHANGED <<poolVars, taskVars, removals, srcVars, emitted, owned>>

\* C28: validator stub, as C28_Step states it for one step: no step that the
\* program can take from a reachable state breaks C28_Step.
C28_ValidatorStub == ~ENABLED <<Next /\ ~C28_Step>>_vars

\* validate() has answered false for a connection whose item is in the pool,
\* unused, on an initialized pool
C28_Witness ==
  /\ ret.op = "validate" /\ ret.val = "false"
  /\ initialized
  /\ \E i \in 1..Len(proxies) : proxies[i].id = ret.arg.id /\ ~proxies[i].used

\* C22: successful init.  An init() call on an uninitialized pool makes one
\* replenish(poolSize) call.  When that call returns a batch, init() installs
\* it as the pool: the items of the batch and no other, in the order the
\* source gave them, all unused; size is the batch length; initialized is
\* set; lastRefresh is stamped; one pool.initialized is emitted and nothing
\* else.  A batch shorter than poolSize is installed as it is and the call
\* returns: no second fetch is made.
C22_Step ==
  /\ \A t \in Suspending("init") :
       /\ ~initialized
       /\ t.rep.count = PoolSize /\ t.rep.idx = 1 /\ t.rep.log = <<>>
       /\ BagCardinality(inflight') = BagCardinality(inflight) + 1
  /\ \A t \in Returning("init") :
       ret'.err = "none" =>
         /\ Len(proxies') \in 1..PoolSize
         /\ \A i \in 1..Len(proxies') :
              /\ proxies'[i].id = nextId + i - 1
              /\ ~proxies'[i].used
              /\ proxies'[i].src = t.rep.idx
         /\ nextId' = nextId + Len(proxies')
         /\ size' = Len(proxies')
         /\ initialized'
         /\ lastRefresh' = lastRefresh + 1
         /\ emitted' = Emit(emitted, "pool.initialized")
         /\ inflight' = inflight (-) One(t)
         /\ UNCHANGED <<refills, replenishing, removals>>

\* C22: successful init, as C22_Step states it for one step: no step that the
\* program can take from a reachable state breaks C22_Step.
C22_SuccessfulInit == ~ENABLED <<Next /\ ~C22_Step>>_vars

\* the first call of the run, an init(), has installed a batch of two items,
\* one short of poolSize, and returned
C22_Witness ==
  /\ nops = 1 /\ ret.op = "init" /\ ret.err = "none"
  /\ initialized /\ lastRefresh = 1
  /\ Len(proxies) = PoolSize - 1 /\ size = PoolSize - 1
  /\ \A i \in 1..Len(proxies) : ~proxies[i].used
  /\ inflight = EmptyBag
  /\ emitted["pool.initialized"] = 1

\* the unused item that entered the pool first.  A batch enters the pool in
\* the step in which its source mints it, and ids are minted in increasing
\* order, so among the items of a pool the one inserted first has the least id.
IsOldestUnused(id) ==
  /\ \E i \in 1..Len(proxies) : proxies[i].id = id /\ ~proxies[i].used
  /\ \A j \in 1..Len(proxies) : ~proxies[j].used => proxies[j].id >= id

\* C23: FIFO over the free list.  The item a get() returns and the item an
\* exclusive() selects is the earliest-inserted unused item of the pool; a
\* refill puts its batch behind every item the pool holds, which it leaves in
\* place, so that the batch is served after the unused items already there.
C23_Step ==
  /\ (SyncReturn("get") /\ ret'.err = "none") => IsOldestUnused(ret'.conn.id)
  /\ \A t \in Suspending("exclusive") : IsOldestUnused(t.sel.id)
  /\ \A t \in RefillDone :
       /\ Len(proxies') >= Len(proxies)
       /\ \A i \in 1..Len(proxies) : proxies'[i] = proxies[i]
       /\ \A i \in 1..Len(proxies) : \A j \in (Len(proxies) + 1)..Len(proxies') :
            proxies[i].id < proxies'[j].id

\* C23: FIFO over the free list, as C23_Step states it for one step: no step
\* that the program can take from a reachable state breaks C23_Step.
C23_FifoFreeList == ~ENABLED <<Next /\ ~C23_Step>>_vars

\* a refill has added an item behind two unused ones, and get() has returned
\* the older of these two
C23_Witness ==
  /\ lastRefresh = 2 /\ Len(proxies) = 4
  /\ proxies[1].used /\ ~proxies[2].used /\ ~proxies[3].used /\ ~proxies[4].used
  /\ proxies[4].id > proxies[3].id
  /\ ret.op = "get" /\ ret.err = "none" /\ ret.conn.id = proxies[2].id

\* the flag of the pool item with this id, before and after the step
UsedNow(id) == \E i \in 1..Len(proxies) : proxies[i].id = id /\ proxies[i].used
UsedNext(id) == \E j \in 1..Len(proxies') : proxies'[j].id = id /\ proxies'[j].used
InPoolNext(id) == \E j \in 1..Len(proxies') : proxies'[j].id = id

\* C25: the used flag is monotonic.  An item enters the pool unused; its flag
\* becomes true only in a step in which an exclusive() returns that item; an
\* item that is in use and still in the pool after a step is still in use;
\* and an item in use leaves the pool only by failed() or delete() on its id,
\* or when a completing init() installs a new pool.
C25_Step ==
  \A id \in 0..MaxIds :
    /\ (~InPool(id) /\ InPoolNext(id)) => ~UsedNext(id)
    /\ (InPool(id) /\ ~UsedNow(id) /\ UsedNext(id)) =>
         \E t \in Returning("exclusive") : t.sel.id = id /\ ret'.conn.id = id
    /\ (UsedNow(id) /\ InPoolNext(id)) => UsedNext(id)
    /\ (UsedNow(id) /\ ~InPoolNext(id)) =>
         \/ (SyncReturn("failed") \/ SyncReturn("delete")) /\ ret'.arg.id = id
         \/ Returning("init") # {}

RefillsStarted ==
  {t \in BagToSet(refills') : CopiesIn(t, refills') > CopiesIn(t, refills) /\ t.phase = "fetch"}

\* C29: the count a background refill asks of socker.replenish is poolSize
\* minus the number of items in the pool when the refill is dispatched, items
\* in use included.
C29_DeficitCountsPool ==
  [][ \A t \in RefillsStarted : t.rep.count = PoolSize - Len(proxies') ]_vars

\* C30: when an exclusive() reaches the rotation line with the flag clear and
\* the count replenishPool() computes is zero or less, no replenish call is
\* made and the replenishing flag is clear afterwards.
C30_NonPositiveDeficitExits ==
  [][ \A t \in Returning("exclusive") :
        (shouldReplenish(proxies') /\ ~replenishing /\ neededCount(proxies') <= 0) =>
           /\ refills' = refills
           /\ ~replenishing' ]_vars

\* C24: no two items of the pool have the same id.
C24_UniqueIds ==
  \A i, j \in 1..Len(proxies) : i # j => proxies[i].id # proxies[j].id

\* the replenish calls that call get(count) on a source in this step: the
\* calls started and the calls that moved on to their next source
Fetching ==
  {t.rep : t \in {u \in BagToSet(inflight') :
                    u.op = "init" /\ CopiesIn(u, inflight') > CopiesIn(u, inflight)}}
    \cup {t.rep : t \in {u \in BagToSet(refills') :
                    u.phase = "fetch" /\ CopiesIn(u, refills') > CopiesIn(u, refills)}}

\* the one item ProxyMeshSource s returns now
IsEndpointOf(items, s) ==
  /\ Len(items) = 1
  /\ items[1] = [id |-> MeshId(s, now), used |-> FALSE, src |-> s]

\* C26: the ProxyMeshSource state machine.  Every ProxyMeshSource starts
\* active.  A get(count), called directly or by replenish, succeeds exactly
\* when the source is active, and then returns one item for every count, zero,
\* negative and large counts included; it leaves the flag alone.  Every
\* remove(id), whatever id, leaves the source inactive, and nothing else
\* deactivates it.  An inactive source becomes active only by reactivate(),
\* a step that changes nothing else.
C26_Step ==
  /\ fetched'.seq # fetched.seq =>
      /\ IsMesh(fetched'.src) /\ fetched'.count \in Counts
      /\ fetched'.ok = isActive[fetched'.src]
      /\ fetched'.ok => IsEndpointOf(fetched'.items, fetched'.src)
      /\ ~fetched'.ok => fetched'.items = <<>>
      /\ isActive' = isActive
  /\ \A r \in Fetching :
       IsMesh(r.idx) =>
         /\ r.got.st = "settled"
         /\ r.got.ok = isActive[r.idx]
         /\ r.got.ok => IsEndpointOf(r.got.items, r.idx)
  /\ \A s \in SourceIds :
       /\ (IsMesh(s) /\ released'[s] # released[s]) => ~isActive'[s]
       /\ (isActive[s] /\ ~isActive'[s]) => released'[s] = released[s] + 1
       /\ (~isActive[s] /\ isActive'[s]) =>
            /\ nops' = nops + 1
            /\ UNCHANGED <<poolVars, taskVars, removals, srcVars, emitted, ret, owned,
                           now, fetched>>

\* C26: the ProxyMeshSource state machine: before the first call every source
\* is active, and no step that the program can take from a reachable state
\* breaks C26_Step.
C26_MeshStateMachine ==
  /\ nops = 0 => \A s \in SourceIds : isActive[s]
  /\ ~ENABLED <<MeshNext /\ ~C26_Step>>_vars

\* a source was removed from and reactivated, and a direct get after that,
\* with a negative count, has returned its endpoint
C26_Witness ==
  /\ nops = 3 /\ fetched.seq = 1 /\ fetched.count = -1 /\ fetched.ok
  /\ Len(fetched.items) = 1
  /\ released[fetched.src] = 1 /\ isActive[fetched.src]

\* the batches the outstanding replenish calls hold or have logged are within
\* bound(count)
WithinCount(r, bound(_)) ==
  /\ (r.got.st = "settled" /\ r.got.ok) => Len(r.got.items) <= bound(r.count)
  /\ \A k \in 1..Len(r.log) : r.log[k].n <= bound(r.count)
Replenishing ==
  {t.rep : t \in {u \in BagToSet(inflight) : u.op = "init"}} \cup {t.rep : t \in BagToSet(refills)}
AsRequested(count) == count
OneAtLeast(count) == IF count < 1 THEN 1 ELSE count

\* C27 as stated: get(count) of a source returns at most count items.
C27_NeverOverDelivers ==
  /\ fetched.ok => Len(fetched.items) <= AsRequested(fetched.count)
  /\ \A r \in Replenishing : WithinCount(r, AsRequested)

\* C27: ProxyMeshSource.get(count) returns one item whatever count, so that
\* a fetch returns at most count items when count >= 1 and one item, more
\* than requested, when count <= 0.
C27_AtMostCountOrOne ==
  /\ fetched.ok => Len(fetched.items) <= OneAtLeast(fetched.count)
  /\ fetched.ok => Len(fetched.items) = 1
  /\ \A r \in Replenishing : WithinCount(r, OneAtLeast)

\* get(0) on an active ProxyMeshSource has returned one item
C27_Witness ==
  /\ fetched.seq = 1 /\ fetched.count = 0 /\ fetched.ok /\ Len(fetched.items) = 1

\* the refills whose replenish returns a batch in this step
RefillSucceeding == {t \in RefillDone : Success(Last(t.rep))}

\* C31: successful background refill.  When the replenish of a refill returns
\* a batch (of one item at least, possibly fewer than asked), the step appends
\* the batch, fresh and unused, behind the items of the pool, which keep their
\* place and their flags; it sets size to the new length, stamps lastRefresh
\* and emits one pool.replenished and nothing else; it starts no other refill,
\* and neither does the step that ends the refill.
C31_Step ==
  /\ \A t \in RefillSucceeding :
       /\ Last(t.rep).n \in 1..t.rep.count
       /\ proxies' = proxies \o Batch(nextId, Last(t.rep).n, Last(t.rep).src)
       /\ size' = Len(proxies')
       /\ lastRefresh' = lastRefresh + 1
       /\ emitted' = Emit(emitted, "pool.replenished")
       /\ BagCardinality(refills') = BagCardinality(refills)
       /\ \A u \in BagToSet(refills') : u.phase = "fetch" => u \in BagToSet(refills)
       /\ UNCHANGED <<initialized, replenishing, inflight, ret, owned>>
  /\ \A t \in RefillEnding : refills' = refills (-) One(t)

\* C31: successful background refill, as C31_Step states it for one step: no
\* step that the program can take from a reachable state breaks C31_Step.
C31_SuccessfulRefill == ~ENABLED <<Next /\ ~C31_Step>>_vars

\* a refill has appended the one item it got behind the items of a full
\* pool, the first of them in use, and has ended; no refill is under way
C31_Witness ==
  /\ emitted["pool.replenished"] = 1 /\ lastRefresh = 2
  /\ refills = EmptyBag /\ ~replenishing
  /\ Len(proxies) = PoolSize + 1 /\ size = PoolSize + 1
  /\ proxies[1].used
  /\ \A i \in 2..(PoolSize + 1) : ~proxies[i].used
  /\ proxies[PoolSize + 1].id = PoolSize + 1

\* initialized, no unused item, no refill outstanding
Exhausted == initialized /\ Len(Available(proxies)) = 0 /\ refills = EmptyBag

\* C32: recovery from exhaustion.  An exclusive() called on an initialized
\* pool that has no unused item and no refill outstanding starts a background
\* refill.
C32_RecoveryFromExhaustion ==
  [][ (Exhausted /\ SyncReturn("exclusive")) => RefillStarted ]_vars

\* C33: one-shot init under overlap.  An init() that requests the initial
\* batch does so while no other init() is waiting for one, and an init() that
\* installs its batch does so on a pool that is not initialized and for which
\* no pool.initialized was emitted: the batch is requested once, the pool is
\* installed once and announced once, and a pool in use is never replaced.
C33_OneShotInit ==
  [][ /\ \A t \in Suspending("init") : \A u \in BagToSet(inflight) : u.op # "init"
      /\ \A t \in Returning("init") :
           ret'.err = "none" =>
             /\ ~initialized
             /\ emitted["pool.initialized"] = 0
             /\ proxies = <<>> ]_vars

\* C34: the returned item is owned.  When exclusive() returns a connection,
\* the pool holds an item with that id, marked as used.
C34_ReturnedItemOwned ==
  [][ \A t \in Returning("exclusive") :
        \E i \in 1..Len(proxies') : proxies'[i].id = ret'.conn.id /\ proxies'[i].used ]_vars

\* C35: no lost update across a refill.  The step in which a refill completes
\* works on the pool as it stands in that step: every item of the pool stays
\* where it is with the flag it has, whatever was marked while the refill was
\* in flight; what is added lies behind, is unused and carries ids no source
\* had built before, so that no item rejected or discarded meanwhile comes
\* back; and the items callers hold are the same.
C35_Step ==
  \A t \in RefillDone :
    /\ Len(proxies') >= Len(proxies)
    /\ SubSeq(proxies', 1, Len(proxies)) = proxies
    /\ \A j \in (Len(proxies) + 1)..Len(proxies') :
         proxies'[j].id >= nextId /\ ~proxies'[j].used
    /\ \A id \in 0..MaxIds : (id < nextId /\ ~InPool(id)) => ~InPoolNext(id)
    /\ owned' = owned

C36_StatsConsistent ==
  /\ getStats.currentSize = Len(proxies)
  /\ getStats.available = Cardinality({i \in 1..Len(proxies) : ~proxies[i].used})
  /\ 0 <= getStats.available /\ getStats.available <= getStats.currentSize

\* after an acquisition and a rejection the stats show two items, one free
C36_Witness ==
  /\ ret.op = "failed" /\ owned # {}
  /\ getStats.currentSize = 2 /\ getStats.available = 1
  /\ \E i \in 1..Len(proxies) : proxies[i].used

\* the replenish calls whose awaited get(count) settles in this step
Settling ==
  {t.rep : t \in {u \in BagToSet(inflight) :
                    u.op = "init" /\ CopiesIn(u, inflight') < CopiesIn(u, inflight)}}
    \cup {t.rep : t \in {u \in BagToSet(refills) :
                    u.phase = "fetch" /\ CopiesIn(u, refills') < CopiesIn(u, refills)}}

\* C37: delete() deactivates every ProxyMeshSource.  The step in which
\* delete(c) dispatches socker.remove leaves every ProxyMeshSource of the list
\* inactive, whatever c.id is and whether or not the pool holds it.  While a
\* ProxyMeshSource is inactive, every get(count) that the replenish of an
\* init() or of a refill calls on it fails, and the step in which that failure
\* is handled adds nothing to the pool.  An inactive source stays inactive
\* in every step but a reactivate(), which changes nothing else.
C37_Step ==
  /\ BagCardinality(removals') > BagCardinality(removals) =>
       /\ ret'.op = "delete" /\ ret'.err = "none"
       /\ \A s \in SourceIds : IsMesh(s) => ~isActive'[s]
       /\ \A s \in SourceIds : IsMesh(s) => released'[s] = released[s] + 1
  /\ \A r \in Fetching :
       (IsMesh(r.idx) /\ ~isActive[r.idx]) =>
          r.got = [st |-> "settled", ok |-> FALSE, items |-> <<>>]
  /\ \A r \in Settling :
       (r.got.st = "settled" /\ ~r.got.ok) =>
          /\ proxies' = proxies
          /\ emitted'["pool.initialized"] = emitted["pool.initialized"]
          /\ emitted'["pool.replenished"] = emitted["pool.replenished"]
  /\ \A s \in SourceIds :
       (IsMesh(s) /\ ~isActive[s] /\ isActive'[s]) =>
          /\ nops' = nops + 1
          /\ UNCHANGED <<poolVars, taskVars, removals, srcVars, emitted, ret, owned,
                         now, fetched>>

\* C37: delete() deactivates every ProxyMeshSource, as C37_Step states it for
\* one step: no step that the program can take from a reachable state breaks
\* C37_Step.
C37_DeleteDeactivatesMesh == ~ENABLED <<MeshNext /\ ~C37_Step>>_vars

\* delete() of an id that no pool ever held has left both ProxyMeshSources
\* inactive, and the init() called afterwards has failed on both
C37_Witness ==
  /\ Len(sources) = 2 /\ nops = 2 /\ lastRefresh = 0
  /\ \A s \in SourceIds : ~isActive[s] /\ released[s] = 1
  /\ ret.op = "init" /\ ret.err = "init failed"
  /\ emitted["pool.init.failed"] = 1

\* the number of outcome events of refills emitted so far
Outcome(e) == e["pool.replenished"] + e["pool.replenish.failed"]

\* C38: one outcome event per refill, before the flag clears.  The step in
\* which the replenish of a refill returns or fails emits one event, either
\* pool.replenished or pool.replenish.failed, with the replenishing flag set
\* before and after; the steps in which a refill moves on to its next source
\* and the step that ends it emit nothing; the flag is cleared only by the
\* ending step, which comes after; and no other step emits either event.
C38_Step ==
  /\ \A t \in RefillDone :
       /\ Outcome(emitted') = Outcome(emitted) + 1
       /\ emitted'["pool.replenished"] >= emitted["pool.replenished"]
       /\ emitted'["pool.replenish.failed"] >= emitted["pool.replenish.failed"]
       /\ replenishing /\ replenishing'
  /\ \A t \in RefillEnding :
       /\ t.phase = "finally"
       /\ emitted' = emitted
       /\ replenishing /\ ~replenishing'
  /\ (replenishing /\ ~replenishing') => RefillEnding # {}
  /\ Outcome(emitted') # Outcome(emitted) => RefillDone # {}
  /\ BagCardinality(refills) <= 1

\* C38: one outcome event per refill, before the flag clears, as C38_Step
\* states it for one step: no step that the program can take from a reachable
\* state breaks C38_Step.
C38_OneOutcomeEvent == ~ENABLED <<Next /\ ~C38_Step>>_vars

\* the second refill of the run has failed, after one that delivered, and
\* its flag is still set
C38_Witness ==
  /\ emitted["pool.replenished"] = 1 /\ emitted["pool.replenish.failed"] = 1
  /\ replenishing
  /\ \E t \in BagToSet(refills) : t.phase = "finally" /\ ~Success(Last(t.rep))

\* the number of ":" in a proxy string, and what stands before the first
Colons(str) == Cardinality({k \in 1..Len(str) : str[k] = ":"})
UpToColon(str) ==
  IF \E k \in 1..Len(str) : str[k] = ":"
  THEN SubSeq(str, 1, (CHOOSE k \in 1..Len(str) :
                         str[k] = ":" /\ \A j \in 1..(k - 1) : str[j] # ":") - 1)
  ELSE str

\* C39: OculusSource.get is all-or-nothing.  get(count) fails, returning no
\* item, exactly when the API call failed or did not answer in its format
\* (a JSON array), when the array is empty, or when one of its strings does not have
\* four fields separated by ":"; otherwise it returns one item per string of
\* the answer, in the order of the answer: item i carries index i - 1 in its
\* id and the first field of string i as host, and is unused.
C39_Step ==
  fetched'.seq # fetched.seq =>
    LET bad == \/ response.kind # "array"
               \/ Len(response.list) = 0
               \/ \E i \in 1..Len(response.list) : Colons(response.list[i]) # 3
    IN /\ fetched'.ok = ~bad
       /\ ~fetched'.ok => fetched'.items = <<>>
       /\ fetched'.ok =>
            /\ Len(fetched'.items) = Len(response.list)
            /\ Len(fetched'.items) >= 1
            /\ \A i \in 1..Len(fetched'.items) :
                 /\ fetched'.items[i].id = [t |-> now, i |-> i - 1]
                 /\ fetched'.items[i].host = UpToColon(response.list[i])
                 /\ ~fetched'.items[i].used

\* C39: OculusSource.get is all-or-nothing, as C39_Step states it for one step:
\* no step that the program can take from a reachable state breaks C39_Step.
C39_OculusAllOrNothing == ~ENABLED <<OculusNext /\ ~C39_Step>>_vars

\* get(1) has returned two items for an answer of two strings of four fields,
\* in the order of the answer
C39_Witness ==
  /\ response = [kind |-> "array", list |-> << <<"a", ":", ":", ":">>, <<":", ":", ":">> >>]
  /\ fetched.ok /\ fetched.count = 1 /\ Len(fetched.items) = 2
  /\ fetched.items[1].host = <<"a">> /\ fetched.items[2].host = <<>>
  /\ fetched.items[1].id.i = 0 /\ fetched.items[2].id.i = 1

====
